---- MODULE Spec2Model ----
(***************************************************************************)
(* Left-preconditioned restarted GMRES (GMRES_torch.ipynb,                 *)
(* precon_GMRES_restarted) and the unpreconditioned GMRES                  *)
(* (GMRES_BASIC.ipynb), modelled as state machines.                        *)
(*                                                                         *)
(* Spec     one call of either solver.  The driver keeps every program     *)
(*          variable.  Vectors and matrices are kept by shape and          *)
(*          provenance: an iterate is named by the x0 it started from and  *)
(*          the number of basis columns used in each cycle since, a        *)
(*          column of V by the statement that wrote it, a column of H by   *)
(*          the number of rows written.  The floating-point results of     *)
(*          torch.norm, lg.qr and of the breakdown test are inputs of      *)
(*          each step: residual magnitudes are the integers 0..MaxRes      *)
(*          and epsilon is a fraction <<num, den>>.                        *)
(* SpecPair two calls of precon_GMRES_restarted side by side, one with     *)
(*          restart = None and one with restart = k_max.                   *)
(* SpecEx   one call of precon_GMRES_restarted on integer data, with       *)
(*          arnoldi_one_iter, lg.qr and back_substitution computed: the    *)
(*          same driver, its numeric inputs now computed from A, b, x0.    *)
(* SpecLive the call of precon_GMRES_restarted of Spec under weak          *)
(*          fairness of its steps.                                         *)
(* SpecInvalid  the calls of Spec with k_max <= 0 or epsilon <= 0.         *)
(* SpecBs   one call of back_substitution, row by row.                     *)
(* SpecArnoldi  one call of arnoldi (Arnoldi_full.ipynb), pass by pass,    *)
(*          or a basis built by calls of arnoldi_one_iter.                 *)
(* SpecSame GMRES and precon_GMRES_restarted (restart = None) on the same  *)
(*          integer data, side by side.                                    *)
(***************************************************************************)
EXTENDS Integers, Sequences, FiniteSets, TLC

VARIABLES
    run,    \* the call of precon_GMRES_restarted under study
    gm,     \* the call of GMRES (GMRES_BASIC.ipynb) under study; in
            \* SpecSame with its tensors, as ex has them
    runN,   \* precon_GMRES_restarted called with restart = None
    runR,   \* the same call with restart = k_max
    ex,     \* a call of precon_GMRES_restarted on integer data
    bs,     \* a call of back_substitution
    full,   \* a call of arnoldi (Arnoldi_full.ipynb)
    one     \* a basis built by calls of arnoldi_one_iter (numpy)

\* the calls of the solvers
solvers == <<run, gm, runN, runR, ex>>

\* the calls of the functions the solvers use
helpers == <<bs, full, one>>

vars == <<run, gm, runN, runR, ex, bs, full, one>>

(* ------------------------------ bounds --------------------------------- *)

\* largest dimension n of A
MaxN == 3

\* largest residual magnitude (norms and residual estimates are 0..MaxRes)
MaxRes == 2

\* the tolerances a call is given: epsilon = <<num, den>> is num / den
Epsilons == {<<1, 2>>, <<1, 4>>}

\* a float that is nan, inf or -inf
NotFinite == -1000000

\* a > epsilon * b ; a comparison with nan or inf * epsilon > inf is False
Exceeds(a, epsilon, b) ==
    /\ a # NotFinite
    /\ b # NotFinite
    /\ a * epsilon[2] > epsilon[1] * b

\* an optional integer argument: None is <<>>, the integer v is <<v>>
None == <<>>

Some(v) == <<v>>

Val(o) == o[1]

Vals == 0 .. MaxRes

Dims == 1 .. MaxN

\* valid k_max arguments: None, or a positive bound (also beyond n)
KMaxArgs == {None} \cup {Some(v) : v \in 1 .. MaxN + 1}

RestartArgs == {None} \cup {Some(v) : v \in 1 .. MaxN}

\* x0 is None or a tensor
X0Args == {"None", "given"}

(* ------------------------- iterates and columns ------------------------ *)

\* xk before the first assignment of line 313
Unbound == [from |-> "unbound", steps |-> <<>>]

\* torch.zeros_like(b)
Zeros == [from |-> "zeros", steps |-> <<>>]

\* the x0 the caller passed
Given == [from |-> "given", steps |-> <<>>]

\* x0 + V[:, :m] @ yk : the iterate built from x0 with m basis columns
Iterate2(x0, m) == [from |-> x0.from, steps |-> Append(x0.steps, m)]

\* V[:, 0] = r0 / beta for r0 = prec(b - A @ x0); 0/0 is nan
R0Col(x0, beta) ==
    [kind |-> IF beta = 0 THEN "nan" ELSE "r0_over_beta", x0 |-> x0]

\* a column of torch.zeros((n, 1))
ZeroCol == [kind |-> "zeros", x0 |-> Unbound]

\* V[:, k + 1] = v_new
NewCol == [kind |-> "v_new", x0 |-> Unbound]

(* ------------------------------ the driver ----------------------------- *)

\* KMaxEff without the clamp to n
KMaxEff_m(k_max, n) ==
    IF k_max = None THEN n
    ELSE Val(k_max)

\* k_max after the clamp
KMaxEff(k_max, n) ==
    IF k_max = None THEN n
    ELSE IF Val(k_max) > n THEN n
    ELSE Val(k_max)

\* x0 = x0 if x0 is not None else torch.zeros_like(b)
X0Eff(x0) == IF x0 = "None" THEN Zeros ELSE Given

\* the state at the first evaluation of the while test
Setup(n, k_max, restart, x0, epsilon, norm) ==
    [ n          |-> n,
      epsilon    |-> epsilon,
      k_maxArg   |-> k_max,
      k_max      |-> KMaxEff(k_max, n),
      restart    |-> restart,
      x0in       |-> X0Eff(x0),
      x0         |-> X0Eff(x0),
      p0         |-> norm,
      beta       |-> norm,
      pk         |-> norm,
      k          |-> 0,
      total_k    |-> 0,
      error_list |-> <<norm>>,
      V          |-> <<R0Col(X0Eff(x0), norm)>>,
      H          |-> <<0>>,
      v_new      |-> "unset",
      xk         |-> Unbound,
      calls      |-> 0,
      ret        |-> <<>>,
      pc         |-> "while" ]

\* LoopTest with the bound off by one
LoopTest_m(st) ==
    /\ Exceeds(st.pk, st.epsilon, st.p0)
    /\ st.total_k <= st.k_max

\* pk > epsilon * p0 and total_k < k_max
LoopTest(st) ==
    /\ Exceeds(st.pk, st.epsilon, st.p0)
    /\ st.total_k < st.k_max

\* BackSubRaises that tests the rows of A only
BackSubRaises_m(rows, cols, blen) ==
    LET n == blen
    IN  \/ rows # n
        \/ rows # blen

\* back_substitution(A, b) raises ValueError unless A is n x n, n = len(b)
BackSubRaises(rows, cols, blen) ==
    LET n == blen
    IN  \/ (rows # n \/ cols # n)
        \/ rows # blen

\* VAfterStep that stores a column although v_new is None
VAfterStep_m(V, k, bd) ==
    LET V1 == Append(V, ZeroCol)
    IN  [V1 EXCEPT ![k + 2] = NewCol]

\* V after torch.cat((V, zeros)) and the branch on v_new;
\* bd: arnoldi_one_iter returned v_new = None
VAfterStep(V, k, bd) ==
    LET V1 == Append(V, ZeroCol)
    IN  IF bd THEN V1 ELSE [V1 EXCEPT ![k + 2] = NewCol]

\* HAfterStep that writes one row more of column k
HAfterStep_m(H, k) ==
    LET H1 == Append(H, 0)
    IN  [H1 EXCEPT ![k + 1] = k + 3]

\* H after torch.cat((H, zeros)) and H[:k + 2, k] = h_k
HAfterStep(H, k) ==
    LET H1 == Append(H, 0)
    IN  [H1 EXCEPT ![k + 1] = k + 2]

\* error_list after the two append statements of one pass
TraceAfterStep(error_list, bd, res) ==
    LET e1 == IF bd THEN Append(error_list, 0) ELSE error_list
    IN  Append(e1, res)

\* one pass of the loop body up to the restart test.
\* bd: arnoldi_one_iter returned v_new = None;  res: abs(beta * Q[0, k])
LoopBody(st, bd, res) ==
    LET k     == st.k
        \* lg.qr(H[:k + 2, :k + 1], mode = 'complete'):
        \* Q is (k+2) x (k+2), R is (k+2) x (k+1)
        qrows == k + 2
        qcols == k + 1
        s1    == [st EXCEPT !.V = VAfterStep(st.V, k, bd),
                            !.H = HAfterStep(st.H, k),
                            !.v_new = IF bd THEN "None" ELSE "vector",
                            !.calls = st.calls + 1,
                            !.pk = res,
                            !.error_list =
                                TraceAfterStep(st.error_list, bd, res)]
    IN  IF BackSubRaises(qrows - 1, qcols, qrows - 1)
        THEN [s1 EXCEPT !.pc = "raised"]
        ELSE [s1 EXCEPT !.xk = Iterate2(st.x0, k + 1),
                        !.k = k + 1,
                        !.total_k = st.total_k + 1,
                        !.pc = "if_restart"]

\* RestartTest that lets k pass restart by one
RestartTest_m(st) == st.restart # None /\ st.k = Val(st.restart) + 1

\* restart is not None and k == restart
RestartTest(st) == st.restart # None /\ st.k = Val(st.restart)

\* RestartBlock that starts the count again as the set-up does
RestartBlock_t(st, norm) ==
    [st EXCEPT !.x0 = st.xk,
               !.p0 = norm,
               !.beta = norm,
               !.pk = norm,
               !.k = 0,
               !.total_k = 0,
               !.V = <<R0Col(st.xk, norm)>>,
               !.H = <<0>>,
               !.pc = "while"]

\* RestartBlock that re-seeds the trace as the set-up does
RestartBlock_m(st, norm) ==
    [st EXCEPT !.x0 = st.xk,
               !.p0 = norm,
               !.beta = norm,
               !.pk = norm,
               !.k = 0,
               !.error_list = <<norm>>,
               !.V = <<R0Col(st.xk, norm)>>,
               !.H = <<0>>,
               !.pc = "while"]

\* the restart block; norm: torch.norm(prec(b - A @ xk))
RestartBlock(st, norm) ==
    [st EXCEPT !.x0 = st.xk,
               !.p0 = norm,
               !.beta = norm,
               !.pk = norm,
               !.k = 0,
               !.V = <<R0Col(st.xk, norm)>>,
               !.H = <<0>>,
               !.pc = "while"]

\* return xk, error_list, total_k ; xk is a local that only the loop binds
ReturnStmt(st) ==
    IF st.xk = Unbound
    THEN [st EXCEPT !.pc = "raised"]
    ELSE [st EXCEPT !.ret = <<st.xk, st.error_list, st.total_k>>,
                    !.pc = "returned"]

\* a solver that is not called in the behaviour at hand
NotCalled == [Setup(1, None, None, "None", <<1, 2>>, 0) EXCEPT !.pc = "idle"]

(* --------------------------- GMRES (basic) ------------------------------ *)

\* k_max after the clamp of GMRES
GKMaxEff(k_max, n) ==
    IF k_max = None THEN n
    ELSE IF Val(k_max) > n THEN n
    ELSE Val(k_max)

\* the state of GMRES at the first evaluation of its while test
GSetup(n, k_max, epsilon, norm) ==
    [ n        |-> n,
      epsilon  |-> epsilon,
      k_maxArg |-> k_max,
      k_max    |-> GKMaxEff(k_max, n),
      x0       |-> Given,
      p0       |-> norm,
      beta     |-> norm,
      pk       |-> norm,
      k        |-> 0,
      xk       |-> Unbound,
      calls    |-> 0,
      ret      |-> <<>>,
      pc       |-> "while" ]

\* pk > epsilon*p0 and k < k_max
GLoopTest(g) ==
    /\ Exceeds(g.pk, g.epsilon, g.p0)
    /\ g.k < g.k_max

\* one pass of the loop of GMRES; res: abs(beta*Q[0, k])
GLoopBody(g, res) ==
    LET k == g.k + 1
        \* H is (k+1) x k, Q is (k+1) x (k+1), R is (k+1) x k
    IN  IF BackSubRaises((k + 1) - 1, k, (k + 1) - 1)
        THEN [g EXCEPT !.k = k, !.calls = g.calls + 1, !.pk = res,
                       !.pc = "raised"]
        ELSE [g EXCEPT !.k = k, !.calls = g.calls + 1, !.pk = res,
                       !.xk = Iterate2(g.x0, k),
                       !.pc = "while"]

\* return xk, pk ; xk is a local that only the loop binds
GReturnStmt(g) ==
    IF g.xk = Unbound
    THEN [g EXCEPT !.pc = "raised"]
    ELSE [g EXCEPT !.ret = <<g.xk, g.pk>>, !.pc = "returned"]

GNotCalled == [GSetup(1, None, <<1, 2>>, 0) EXCEPT !.pc = "idle"]

(* ------------------- the solver on integer data ------------------------ *)
(* Tensors are sequences: a vector is a sequence of numbers, V and H are   *)
(* sequences of columns.  The data are chosen so that every norm is an     *)
(* integer and every quotient exact, hence the floats are the integers;    *)
(* the Q of lg.qr alone is rational and held over a common denominator.    *)

\* dimension of the integer systems
ExN == 2

\* the nonzero entries of A
ExEntries == {-1, 1, 2}

\* the nonzero component of the initial residual b - A @ x0
ExResiduals == {-2, 2}

FAdd(x, y) == IF x = NotFinite \/ y = NotFinite THEN NotFinite ELSE x + y

FSub(x, y) == IF x = NotFinite \/ y = NotFinite THEN NotFinite ELSE x - y

\* nan * 0 is nan
FMul(x, y) == IF x = NotFinite \/ y = NotFinite THEN NotFinite ELSE x * y

\* 0 / 0 is nan, c / 0 is inf or -inf
FDiv(x, y) ==
    IF x = NotFinite \/ y = NotFinite \/ y = 0 THEN NotFinite
    ELSE CHOOSE q \in -(IF x < 0 THEN -x ELSE x) .. (IF x < 0 THEN -x ELSE x) :
            q * y = x

FAbs(x) == IF x = NotFinite THEN NotFinite ELSE IF x < 0 THEN -x ELSE x

Sign(x) == IF x < 0 THEN -1 ELSE 1

RECURSIVE FSum(_)
FSum(v) == IF v = <<>> THEN 0 ELSE FAdd(Head(v), FSum(Tail(v)))

\* torch.dot
Dot(u, v) == FSum([i \in 1 .. Len(u) |-> FMul(u[i], v[i])])

\* A @ x for A given by rows
MatVec(A, x) == [i \in 1 .. Len(A) |-> Dot(A[i], x)]

\* u - c * v
AXPY(u, c, v) == [i \in 1 .. Len(u) |-> FSub(u[i], FMul(c, v[i]))]

\* torch.norm, p = 2
Norm(v) ==
    LET s == FSum([i \in 1 .. Len(v) |-> FMul(v[i], v[i])])
    IN  IF s = NotFinite THEN NotFinite
        ELSE CHOOSE r \in 0 .. s : r * r = s

\* v / c
VDiv(v, c) == [i \in 1 .. Len(v) |-> FDiv(v[i], c)]

ZeroVec(n) == [i \in 1 .. n |-> 0]

\* the baseline preconditioner, prec = lambda x: x
Prec(x) == x

\* v_new is None
NoVector == <<>>

\* h_k[k + 1] <= tol, tol = 1e-12, for a norm that is an integer
BelowTol(h) == h <= 0

\* the orthogonalisation loop for j in range(k + 1), from j on
RECURSIVE GramSchmidt(_, _, _, _, _)
GramSchmidt(w, h, V, j, k) ==
    IF j > k THEN [w |-> w, h |-> h]
    ELSE LET hj == Dot(w, V[j + 1])
         IN  GramSchmidt(AXPY(w, hj, V[j + 1]),
                         [h EXCEPT ![j + 1] = hj], V, j + 1, k)

\* arnoldi_one_iter(prec, A, V, k): the column h_k and v_new
ArnoldiOneIter(A, V, k) ==
    LET h0 == [i \in 1 .. k + 2 |-> 0]
        gs == GramSchmidt(Prec(MatVec(A, V[k + 1])), h0, V, 0, k)
        hn == Norm(gs.w)
        h  == [gs.h EXCEPT ![k + 2] = hn]
    IN  IF BelowTol(hn)
        THEN [h |-> h, v_new |-> NoVector]
        ELSE [h |-> h, v_new |-> VDiv(gs.w, hn)]

\* H[:rows, :cols] as a sequence of rows
Block(H, rows, cols) ==
    [i \in 1 .. rows |-> [j \in 1 .. cols |-> H[j][i]]]

\* the sum of u[t] * w[t] over t in 1 .. m
SumOver(m, u, w) == FSum([t \in 1 .. m |-> u[t] * w[t]])

Identity(m) == [i \in 1 .. m |-> [j \in 1 .. m |-> IF i = j THEN 1 ELSE 0]]

\* the Householder steps of lg.qr from column j on.  Q is held exactly, as
\* integer numerators over the denominator den.  A column that is zero
\* below its diagonal needs no reflection; a column with a zero diagonal
\* and one entry c below it, in row i, is reflected by exchanging rows j
\* and i with the factor -sign(c); any other column x, of integer norm c,
\* is reflected by I - v v^T / d with v = x + sign(x[j]) c e_j and
\* d = c (c + |x[j]|), which sends x to -sign(x[j]) c e_j.
RECURSIVE Householder(_, _, _, _)
Householder(Q, R, den, j) ==
    LET m == Len(R)
        n == Len(R[1])
        below == {i \in j + 1 .. m : R[i][j] # 0}
    IN  IF j > n \/ j > m - 1 THEN [Q |-> Q, R |-> R, den |-> den]
        ELSE IF below = {} THEN Householder(Q, R, den, j + 1)
        ELSE IF R[j][j] = 0 /\ Cardinality(below) = 1
        THEN LET i == CHOOSE i \in below : TRUE
                 s == -Sign(R[i][j])
                 R2 == [r \in 1 .. m |->
                          IF r = j THEN [c \in 1 .. n |-> s * R[i][c]]
                          ELSE IF r = i THEN [c \in 1 .. n |-> s * R[j][c]]
                          ELSE R[r]]
                 Q2 == [r \in 1 .. m |-> [c \in 1 .. m |->
                          IF c = j THEN s * Q[r][i]
                          ELSE IF c = i THEN s * Q[r][j]
                          ELSE Q[r][c]]]
             IN  Householder(Q2, R2, den, j + 1)
        ELSE LET c  == Norm([t \in 1 .. m - j + 1 |-> R[j + t - 1][j]])
                 v  == [t \in 1 .. m |->
                          IF t < j THEN 0
                          ELSE IF t = j THEN R[j][j] + Sign(R[j][j]) * c
                          ELSE R[t][j]]
                 d  == c * (c + FAbs(R[j][j]))
                 R2 == [r \in 1 .. m |-> [col \in 1 .. n |->
                          R[r][col] -
                            FDiv(v[r] * SumOver(m, v, [t \in 1 .. m |-> R[t][col]]),
                                 d)]]
                 Q2 == [r \in 1 .. m |-> [col \in 1 .. m |->
                          Q[r][col] * d - SumOver(m, Q[r], v) * v[col]]]
             IN  Householder(Q2, R2, den * d, j + 1)

\* lg.qr(M, mode = 'complete')
QR(M) == Householder(Identity(Len(M)), M, 1, 1)

\* BackSubRow that adds the sum where it is to be subtracted
BackSubRow_m(A, b, x, i) ==
    LET s == FSum([j \in 1 .. Len(b) - i |-> FMul(A[i][i + j], x[i + j])])
    IN  FDiv(FAdd(b[i], s), A[i][i])

\* (b[i] - torch.sum(A[i, i+1:] * x[i+1:])) / A[i, i]
BackSubRow(A, b, x, i) ==
    LET s == FSum([j \in 1 .. Len(b) - i |-> FMul(A[i][i + j], x[i + j])])
    IN  FDiv(FSub(b[i], s), A[i][i])

\* the loop of back_substitution from row i down to row 1
RECURSIVE BackSubLoop(_, _, _, _)
BackSubLoop(A, b, x, i) ==
    IF i < 1 THEN x
    ELSE BackSubLoop(A, b, [x EXCEPT ![i] = BackSubRow(A, b, x, i)], i - 1)

\* back_substitution(A, b) when the dimension checks pass
BackSubstitution(A, b) == BackSubLoop(A, b, ZeroVec(Len(b)), Len(b))

\* x0 + V[:, :cols] @ yk
Update(x0, V, cols, yk) ==
    [i \in 1 .. Len(x0) |->
        FAdd(x0[i], FSum([j \in 1 .. cols |-> FMul(V[j][i], yk[j])]))]

\* prec(b - A @ x0)
Residual(A, b, x0) ==
    Prec([i \in 1 .. Len(b) |-> FSub(b[i], MatVec(A, x0)[i])])

\* the tensors after the set-up, with the driver state of Setup
ExSetup(A, b, x0, k_max, restart, epsilon) ==
    LET r0   == Residual(A, b, x0)
        beta == Norm(r0)
    IN  [ drv |-> Setup(Len(A), k_max, restart, "given", epsilon, beta),
          A   |-> A,
          b   |-> b,
          x0in |-> x0,
          r0in |-> r0,
          x0  |-> x0,
          V   |-> <<VDiv(r0, beta)>>,
          H   |-> <<ZeroVec(Len(A) + 1)>>,
          xk  |-> <<>>,
          ret |-> <<>> ]

\* one pass of the loop body on the tensors, up to the restart test
ExLoopBody(e) ==
    LET k    == e.drv.k
        n    == e.drv.n
        beta == e.drv.beta
        V1   == Append(e.V, ZeroVec(n))
        H1   == Append(e.H, ZeroVec(n + 1))
        ar   == ArnoldiOneIter(e.A, V1, k)
        H2   == [H1 EXCEPT ![k + 1] =
                    [i \in 1 .. n + 1 |->
                        IF i <= k + 2 THEN ar.h[i] ELSE H1[k + 1][i]]]
        bd   == ar.v_new = NoVector
        V2   == IF bd THEN V1 ELSE [V1 EXCEPT ![k + 2] = ar.v_new]
        qr   == QR(Block(H2, k + 2, k + 1))
        pk   == FAbs(FDiv(FMul(beta, qr.Q[1][k + 1]), qr.den))
        yk   == BackSubstitution(
                    [i \in 1 .. k + 1 |-> qr.R[i]],
                    [j \in 1 .. k + 1 |->
                        FDiv(FMul(beta, qr.Q[1][j]), qr.den)])
    IN  [e EXCEPT !.drv = LoopBody(e.drv, bd, pk),
                  !.V = V2,
                  !.H = H2,
                  !.xk = Update(e.x0, V2, k + 1, yk)]

\* ExRestartBlock that takes the residual of the x0 of the cycle that ends
ExRestartBlock_m(e) ==
    LET r0   == Residual(e.A, e.b, e.x0)
        beta == Norm(r0)
    IN  [e EXCEPT !.drv = RestartBlock(e.drv, beta),
                  !.x0 = e.xk,
                  !.V = <<VDiv(r0, beta)>>,
                  !.H = <<ZeroVec(e.drv.n + 1)>>]

\* the restart block on the tensors
ExRestartBlock(e) ==
    LET r0   == Residual(e.A, e.b, e.xk)
        beta == Norm(r0)
    IN  [e EXCEPT !.drv = RestartBlock(e.drv, beta),
                  !.x0 = e.xk,
                  !.V = <<VDiv(r0, beta)>>,
                  !.H = <<ZeroVec(e.drv.n + 1)>>]

\* return xk, error_list, total_k
ExReturnStmt(e) ==
    LET d == ReturnStmt(e.drv)
    IN  [e EXCEPT !.drv = d,
                  !.ret = IF d.pc = "returned" THEN e.xk ELSE <<>>]

ExNotCalled ==
    [ExSetup(<<<<1>>>>, <<0>>, <<0>>, None, None, <<1, 2>>)
        EXCEPT !.drv.pc = "idle"]

\* the matrices with one nonzero entry in each row and each column
ScaledPermutations(n) ==
    { [i \in 1 .. n |-> [j \in 1 .. n |-> IF p[j] = i THEN c[j] ELSE 0]] :
        p \in {q \in [1 .. n -> 1 .. n] :
                  \A a, b \in 1 .. n : q[a] = q[b] => a = b},
        c \in [1 .. n -> ExEntries] }

\* the zero vector and the multiples of unit vectors
AxisVectors(n) ==
    {ZeroVec(n)} \cup
    { [i \in 1 .. n |-> IF i = a THEN c ELSE 0] :
        a \in 1 .. n, c \in ExResiduals }

\* the matrices with leading block [[a, -c], [c, a]], a^2 + c^2 = 25, and
\* the identity elsewhere: the first column has the integer norm 5
Rotations(n) ==
    { [i \in 1 .. n |-> [j \in 1 .. n |->
          IF i <= 2 /\ j <= 2
          THEN (IF i = j THEN q[1] ELSE IF i = 2 THEN q[2] ELSE -q[2])
          ELSE IF i = j THEN 1 ELSE 0]] :
        q \in {<<3, 4>>, <<4, 3>>, <<-3, 4>>} }

\* the initial residuals of norm 25 along the first unit vector
RotationResiduals(n) ==
    { [i \in 1 .. n |-> IF i = 1 THEN c ELSE 0] : c \in {-25, 25} }

(* ------------------------- back_substitution --------------------------- *)

\* largest number of rows, of columns and of entries of b in a call
BsMax == 3

\* the diagonal entries of an upper-triangular A
BsDiag == {-1, 2}

\* its entries above the diagonal
BsOff == {0, 1}

\* the entries of the solution from which b is formed
BsSol == {-1, 2}

\* the positions above the diagonal
Above(rows, cols) == {ij \in (1 .. rows) \X (1 .. cols) : ij[1] < ij[2]}

\* the rows x cols matrix, given by rows, with d on the diagonal, o above
UpperTriangular(rows, cols, d, o) ==
    [i \in 1 .. rows |-> [j \in 1 .. cols |->
        IF i = j THEN d[i] ELSE IF i < j THEN o[<<i, j>>] ELSE 0]]

\* the upper-triangular systems A @ x = b with b = A @ z
BsSystems ==
    UNION { { [A |-> UpperTriangular(m, m, d, o),
               b |-> MatVec(UpperTriangular(m, m, d, o), z)] :
                d \in [1 .. m -> BsDiag],
                o \in [Above(m, m) -> BsOff],
                z \in [1 .. m -> BsSol] } : m \in 1 .. BsMax }

\* arguments of every shape, all entries 1
BsShapes ==
    { [A |-> [i \in 1 .. rows |-> [j \in 1 .. cols |-> 1]],
       b |-> [i \in 1 .. blen |-> 1]] :
        rows \in 1 .. BsMax, cols \in 1 .. BsMax, blen \in 1 .. BsMax }

\* the arguments of a call
BsArgs == BsSystems \cup BsShapes

\* back_substitution(A, b) at its first statement
BsCall(A, b) == [A |-> A, b |-> b, x |-> <<>>, i |-> 0, pc |-> "entry"]

\* n = b.size(0), the two dimension checks, x = torch.zeros(n)
BsChecks(c) ==
    LET n == Len(c.b)
    IN  IF BackSubRaises(Len(c.A), Len(c.A[1]), n)
        THEN [c EXCEPT !.pc = "raised"]
        ELSE [c EXCEPT !.x = ZeroVec(n), !.i = n, !.pc = "loop"]

\* one pass of for i in range(n - 1, -1, -1)
BsLoopPass(c) ==
    [c EXCEPT !.x[c.i] = BackSubRow(c.A, c.b, c.x, c.i), !.i = c.i - 1]

BsNotCalled == [BsCall(<<<<1>>>>, <<0>>) EXCEPT !.pc = "idle"]

(* ------------------------ arnoldi (all steps) -------------------------- *)
(* The matrices are upper Hessenberg and r0 is a multiple of the first     *)
(* unit vector, so that every basis vector is plus or minus a unit vector, *)
(* every norm an integer and every quotient exact.                         *)

\* largest dimension n of A in a call of arnoldi or arnoldi_one_iter
ArnN == 3

\* the entries below the diagonal of A; 0 makes the process break down
ArnSub == {-1, 0, 2}

\* the entries on the diagonal of A
ArnDiag == {0, 1}

\* the entries above the diagonal of A, one value for each column
ArnUpper == {0, 1}

\* the upper Hessenberg matrix, by rows, with s below the diagonal
Hessenberg(n, s, d, u) ==
    [i \in 1 .. n |-> [j \in 1 .. n |->
        IF i = j + 1 THEN s[j]
        ELSE IF i = j THEN d[i]
        ELSE IF i < j THEN u[j]
        ELSE 0]]

ArnMatrices ==
    UNION { { Hessenberg(n, s, d, u) :
                s \in [1 .. n - 1 -> ArnSub],
                d \in [1 .. n -> ArnDiag],
                u \in [2 .. n -> ArnUpper] } : n \in 2 .. ArnN }

\* r0 = b - A @ x0, a nonzero multiple of the first unit vector
ArnResiduals(n) ==
    { [i \in 1 .. n |-> IF i = 1 THEN c ELSE 0] : c \in ExResiduals }

\* n x cols zeros, by columns
ZeroColumns(n, cols) == [c \in 1 .. cols |-> ZeroVec(n)]

Min(a, b) == IF a < b THEN a ELSE b

\* arnoldi(A, b, r0, m) at its first statement
ArnoldiCall(A, b, r0, m) ==
    [A |-> A, b |-> b, r0 |-> r0, m |-> m, V |-> <<>>, H |-> <<>>,
     k |-> 0, pc |-> "entry"]

\* the asserts, m = min(m, n), the allocation of V and H, V[:, 0] = r0 / beta
ArnoldiEntry(f) ==
    LET n    == Len(f.A)
        m    == Min(f.m, n)
        beta == Norm(f.r0)
    IN  IF ~(\A i \in 1 .. n : Len(f.A[i]) = n) \/ Len(f.b) # n \/ ~(f.m > 0)
        THEN [f EXCEPT !.pc = "raised"]
        ELSE [f EXCEPT !.m = m,
                       !.V = [ZeroColumns(n, m + 1)
                                 EXCEPT ![1] = VDiv(f.r0, beta)],
                       !.H = ZeroColumns(m + 1, m),
                       !.k = 1,
                       !.pc = "loop"]

\* for j in range(k): H[j, k - 1] = V[:, j] @ w ; w -= H[j, k - 1] * V[:, j]
\* from j on; hcol is column k - 1 of H
RECURSIVE ArnoldiOrthogonalise(_, _, _, _, _)
ArnoldiOrthogonalise(w, hcol, V, j, k) ==
    IF j >= k THEN [w |-> w, hcol |-> hcol]
    ELSE LET hj == Dot(V[j + 1], w)
         IN  ArnoldiOrthogonalise(AXPY(w, hj, V[j + 1]),
                                  [hcol EXCEPT ![j + 1] = hj], V, j + 1, k)

\* ArnoldiLoopPass that takes column k of V where column k - 1 is meant
ArnoldiLoopPass_m(f) ==
    LET k  == f.k
        og == ArnoldiOrthogonalise(MatVec(f.A, f.V[k + 1]), f.H[k], f.V, 0, k)
        hn == Norm(og.w)
        H1 == [f.H EXCEPT ![k] = [og.hcol EXCEPT ![k + 1] = hn]]
    IN  IF BelowTol(hn)
        THEN [f EXCEPT !.H = H1, !.pc = "returned"]
        ELSE [f EXCEPT !.H = H1,
                       !.V = [f.V EXCEPT ![k + 1] = VDiv(og.w, hn)],
                       !.k = k + 1]

\* one pass of for k in range(1, m + 1)
ArnoldiLoopPass(f) ==
    LET k  == f.k
        og == ArnoldiOrthogonalise(MatVec(f.A, f.V[k]), f.H[k], f.V, 0, k)
        hn == Norm(og.w)
        H1 == [f.H EXCEPT ![k] = [og.hcol EXCEPT ![k + 1] = hn]]
    IN  IF BelowTol(hn)
        THEN [f EXCEPT !.H = H1, !.pc = "returned"]
        ELSE [f EXCEPT !.H = H1,
                       !.V = [f.V EXCEPT ![k + 1] = VDiv(og.w, hn)],
                       !.k = k + 1]

ArnoldiNotCalled ==
    [ArnoldiCall(<<<<1>>>>, <<0>>, <<0>>, 1) EXCEPT !.pc = "idle"]

(* -------------------- arnoldi_one_iter (numpy) ------------------------- *)

\* SharesMemory for v_new = V[:, k], a view
SharesMemory_m(V, k) == TRUE

\* whether the array v_new is a view of column k of V: A @ V[:, k] is a
\* new array
SharesMemory(V, k) == FALSE

\* v_new -= ..., v_new /= ... write the array of v_new; V as it is then
InPlace(V, k, w) == IF SharesMemory(V, k) THEN [V EXCEPT ![k + 1] = w] ELSE V

\* for j in range(k + 1): h_k[j] = v_new @ V[:, j] ; v_new -= h_k[j] * V[:, j]
\* from j on
RECURSIVE NpOrthogonalise(_, _, _, _, _)
NpOrthogonalise(w, h, V, j, k) ==
    IF j > k THEN [w |-> w, h |-> h, V |-> V]
    ELSE LET hj == Dot(w, V[j + 1])
             w1 == AXPY(w, hj, V[j + 1])
         IN  NpOrthogonalise(w1, [h EXCEPT ![j + 1] = hj],
                             InPlace(V, k, w1), j + 1, k)

\* NpArnoldiOneIter that tests the last projection against tol
NpArnoldiOneIter_m(A, V, k) ==
    LET og == NpOrthogonalise(MatVec(A, V[k + 1]), ZeroVec(k + 2), V, 0, k)
        hn == Norm(og.w)
        h  == [og.h EXCEPT ![k + 2] = hn]
    IN  IF BelowTol(h[k + 1])
        THEN [h |-> h, v_new |-> NoVector, V |-> og.V]
        ELSE [h |-> h, v_new |-> VDiv(og.w, hn),
              V |-> InPlace(og.V, k, VDiv(og.w, hn))]

\* NpArnoldiOneIter that returns the remainder as it is
NpArnoldiOneIter_u(A, V, k) ==
    LET og == NpOrthogonalise(MatVec(A, V[k + 1]), ZeroVec(k + 2), V, 0, k)
        hn == Norm(og.w)
        h  == [og.h EXCEPT ![k + 2] = hn]
    IN  IF BelowTol(hn)
        THEN [h |-> h, v_new |-> NoVector, V |-> og.V]
        ELSE [h |-> h, v_new |-> og.w, V |-> og.V]

\* arnoldi_one_iter(A, V, k): h_k, v_new, and V as the call leaves it
NpArnoldiOneIter(A, V, k) ==
    LET og == NpOrthogonalise(MatVec(A, V[k + 1]), ZeroVec(k + 2), V, 0, k)
        hn == Norm(og.w)
        h  == [og.h EXCEPT ![k + 2] = hn]
    IN  IF BelowTol(hn)
        THEN [h |-> h, v_new |-> NoVector, V |-> og.V]
        ELSE [h |-> h, v_new |-> VDiv(og.w, hn),
              V |-> InPlace(og.V, k, VDiv(og.w, hn))]

\* the caller before its first iteration: V[:, 0] = r0 / beta, H one column
\* of n + 1 zeros, k = 0; m iterations are to be made
OneSetup(A, r0, m) ==
    [A |-> A, V |-> <<VDiv(r0, Norm(r0))>>, H |-> <<ZeroVec(Len(A) + 1)>>,
     k |-> 0, m |-> m, h |-> <<>>, v_new |-> NoVector, basis |-> "krylov",
     pc |-> "extend"]

\* V = cat((V, zeros((n, 1)))) ; H = cat((H, zeros((n + 1, 1))))
OneConcatenate(o) ==
    [o EXCEPT !.V = Append(o.V, ZeroVec(Len(o.A))),
              !.H = Append(o.H, ZeroVec(Len(o.A) + 1)),
              !.pc = "call"]

\* the call arnoldi_one_iter(A, V, k), up to its return
OneCallReturns(o) ==
    LET r == NpArnoldiOneIter(o.A, o.V, o.k)
    IN  [o EXCEPT !.h = r.h, !.v_new = r.v_new, !.V = r.V, !.pc = "store"]

\* H[:k + 2, k] = h_k ; V[:, k + 1] = v_new unless v_new is None ; k += 1
OneAssign(o) ==
    LET k  == o.k
        H1 == [o.H EXCEPT ![k + 1] =
                 [i \in 1 .. Len(o.A) + 1 |->
                     IF i <= k + 2 THEN o.h[i] ELSE o.H[k + 1][i]]]
        V1 == IF o.v_new = NoVector THEN o.V
              ELSE [o.V EXCEPT ![k + 2] = o.v_new]
    IN  [o EXCEPT !.H = H1, !.V = V1, !.k = k + 1, !.pc = "extend"]

\* one call on a V that need not be orthonormal: the k + 1 columns given
\* and the zero column the caller appended
OneGiven(A, cols) ==
    [A |-> A, V |-> Append(cols, ZeroVec(Len(A))),
     H |-> ZeroColumns(Len(A) + 1, Len(cols) + 1),
     k |-> Len(cols) - 1, m |-> Len(cols), h |-> <<>>, v_new |-> NoVector,
     basis |-> "given", pc |-> "call"]

\* the entries of the columns of a V that is given
OneEntries == {-1, 0, 1}

\* the norm taken in the call on (A, V, k) is an integer
NormIsInteger(A, V, k) ==
    LET og == NpOrthogonalise(MatVec(A, V[k + 1]), ZeroVec(k + 2), V, 0, k)
        s  == FSum([i \in 1 .. Len(og.w) |-> FMul(og.w[i], og.w[i])])
    IN  \E r \in 0 .. s : r * r = s

\* calls on one or two given columns of length 2
OneGivenArgs ==
    { c \in [A : ScaledPermutations(2),
             cols : UNION { [1 .. l -> [1 .. 2 -> OneEntries]] : l \in 1 .. 2 }] :
        NormIsInteger(c.A, Append(c.cols, ZeroVec(2)), Len(c.cols) - 1) }

OneNotCalled ==
    [OneSetup(<<<<1>>>>, <<1>>, 1) EXCEPT !.pc = "idle"]

HelpersIdle ==
    /\ bs = BsNotCalled
    /\ full = ArnoldiNotCalled
    /\ one = OneNotCalled

(* --------------------- GMRES on integer data --------------------------- *)

\* the call arnoldi(A, b, r0, m) from its state f up to its return
RECURSIVE ArnoldiRun(_)
ArnoldiRun(f) ==
    IF f.pc = "entry" THEN ArnoldiRun(ArnoldiEntry(f))
    ELSE IF f.pc = "loop" /\ f.k <= f.m THEN ArnoldiRun(ArnoldiLoopPass(f))
    ELSE IF f.pc = "loop" THEN [f EXCEPT !.pc = "returned"]
    ELSE f

\* the tensors of GMRES after its set-up, with the driver state of GSetup
GExSetup(A, b, x0, k_max, epsilon) ==
    LET r0 == [i \in 1 .. Len(b) |-> FSub(b[i], MatVec(A, x0)[i])]
    IN  [ drv |-> GSetup(Len(A), k_max, epsilon, Norm(r0)),
          A   |-> A,
          b   |-> b,
          x0  |-> x0,
          r0  |-> r0,
          V   |-> <<>>,
          H   |-> <<>>,
          xk  |-> <<>>,
          ret |-> <<>> ]

\* one pass of the loop of GMRES on the tensors
GExLoopBody(g) ==
    LET k    == g.drv.k + 1
        beta == g.drv.beta
        f    == ArnoldiRun(ArnoldiCall(g.A, g.b, g.r0, k))
        qr   == QR(Block(f.H, k + 1, k))
        pk   == FAbs(FDiv(FMul(beta, qr.Q[1][k + 1]), qr.den))
        yk   == BackSubstitution(
                    [i \in 1 .. k |-> qr.R[i]],
                    [j \in 1 .. k |-> FDiv(FMul(beta, qr.Q[1][j]), qr.den)])
    IN  [g EXCEPT !.drv = GLoopBody(g.drv, pk),
                  !.V = f.V,
                  !.H = f.H,
                  !.xk = Update(g.x0, f.V, k, yk)]

\* return xk, pk
GExReturnStmt(g) ==
    LET d == GReturnStmt(g.drv)
    IN  [g EXCEPT !.drv = d,
                  !.ret = IF d.pc = "returned" THEN g.xk ELSE <<>>]

(* ------------------------------ one solve ------------------------------ *)

Init ==
    /\ HelpersIdle
    /\ \/ /\ \E n \in Dims, k_max \in KMaxArgs, restart \in RestartArgs,
                x0 \in X0Args, epsilon \in Epsilons, norm \in Vals :
                run = Setup(n, k_max, restart, x0, epsilon, norm)
          /\ gm = GNotCalled
       \/ /\ \E n \in Dims, k_max \in KMaxArgs, epsilon \in Epsilons,
                norm \in Vals :
                gm = GSetup(n, k_max, epsilon, norm)
          /\ run = NotCalled
    /\ runN = NotCalled
    /\ runR = NotCalled
    /\ ex = ExNotCalled

Iterate ==
    /\ run.pc = "while"
    /\ LoopTest(run)
    /\ \E bd \in BOOLEAN, res \in 0 .. run.beta :
          run' = LoopBody(run, bd, res)
    /\ UNCHANGED <<gm, runN, runR, ex, helpers>>

Restart ==
    /\ run.pc = "if_restart"
    /\ RestartTest(run)
    /\ \E norm \in Vals : run' = RestartBlock(run, norm)
    /\ UNCHANGED <<gm, runN, runR, ex, helpers>>

NoRestart ==
    /\ run.pc = "if_restart"
    /\ ~RestartTest(run)
    /\ run' = [run EXCEPT !.pc = "while"]
    /\ UNCHANGED <<gm, runN, runR, ex, helpers>>

Return ==
    /\ run.pc = "while"
    /\ ~LoopTest(run)
    /\ run' = ReturnStmt(run)
    /\ UNCHANGED <<gm, runN, runR, ex, helpers>>

GIterate ==
    /\ gm.pc = "while"
    /\ GLoopTest(gm)
    /\ \E res \in 0 .. gm.beta : gm' = GLoopBody(gm, res)
    /\ UNCHANGED <<run, runN, runR, ex, helpers>>

GReturn ==
    /\ gm.pc = "while"
    /\ ~GLoopTest(gm)
    /\ gm' = GReturnStmt(gm)
    /\ UNCHANGED <<run, runN, runR, ex, helpers>>

Next == Iterate \/ Restart \/ NoRestart \/ Return \/ GIterate \/ GReturn

Spec == Init /\ [][Next]_vars

(* -------------------- one solve on integer data ----------------------- *)

\* b is chosen so that b - A @ x0 is zero or a multiple of a unit vector
\* or, for a solve without restart, a multiple of the first unit vector
\* against a matrix whose Hessenberg columns have integer norms
InitEx ==
    /\ HelpersIdle
    /\ \/ \E A \in ScaledPermutations(ExN), r \in AxisVectors(ExN),
             x0 \in {ZeroVec(ExN), [i \in 1 .. ExN |-> 1]},
             k_max \in {None} \cup {Some(v) : v \in 1 .. ExN},
             restart \in {None} \cup {Some(v) : v \in 1 .. ExN},
             epsilon \in Epsilons :
             ex = ExSetup(A, [i \in 1 .. ExN |-> r[i] + MatVec(A, x0)[i]],
                          x0, k_max, restart, epsilon)
       \/ \E A \in Rotations(ExN), r \in RotationResiduals(ExN),
             x0 \in {ZeroVec(ExN), [i \in 1 .. ExN |-> 1]},
             k_max \in {None} \cup {Some(v) : v \in 1 .. ExN},
             epsilon \in Epsilons :
             ex = ExSetup(A, [i \in 1 .. ExN |-> r[i] + MatVec(A, x0)[i]],
                          x0, k_max, None, epsilon)
    /\ run = NotCalled
    /\ gm = GNotCalled
    /\ runN = NotCalled
    /\ runR = NotCalled

ExIterate ==
    /\ ex.drv.pc = "while"
    /\ LoopTest(ex.drv)
    /\ ex' = ExLoopBody(ex)
    /\ UNCHANGED <<run, gm, runN, runR, helpers>>

ExRestart ==
    /\ ex.drv.pc = "if_restart"
    /\ RestartTest(ex.drv)
    /\ ex' = ExRestartBlock(ex)
    /\ UNCHANGED <<run, gm, runN, runR, helpers>>

ExNoRestart ==
    /\ ex.drv.pc = "if_restart"
    /\ ~RestartTest(ex.drv)
    /\ ex' = [ex EXCEPT !.drv.pc = "while"]
    /\ UNCHANGED <<run, gm, runN, runR, helpers>>

ExReturn ==
    /\ ex.drv.pc = "while"
    /\ ~LoopTest(ex.drv)
    /\ ex' = ExReturnStmt(ex)
    /\ UNCHANGED <<run, gm, runN, runR, helpers>>

NextEx == ExIterate \/ ExRestart \/ ExNoRestart \/ ExReturn

SpecEx == InitEx /\ [][NextEx]_vars

(* ------------- GMRES and precon_GMRES_restarted side by side ----------- *)

\* the two solvers get the same A, b, x0, k_max and epsilon; the
\* preconditioner is the identity and restart is None
InitSame ==
    /\ HelpersIdle
    /\ \E A \in ScaledPermutations(ExN) \cup Rotations(ExN),
          x0 \in {ZeroVec(ExN), [i \in 1 .. ExN |-> 1]},
          k_max \in {None} \cup {Some(v) : v \in 1 .. ExN},
          epsilon \in Epsilons :
          \E r \in IF A \in Rotations(ExN) THEN RotationResiduals(ExN)
                   ELSE AxisVectors(ExN) :
             LET b == [i \in 1 .. ExN |-> r[i] + MatVec(A, x0)[i]]
             IN  /\ ex = ExSetup(A, b, x0, k_max, None, epsilon)
                 /\ gm = GExSetup(A, b, x0, k_max, epsilon)
    /\ run = NotCalled
    /\ runN = NotCalled
    /\ runR = NotCalled

GExIterate ==
    /\ gm.drv.pc = "while"
    /\ GLoopTest(gm.drv)
    /\ gm' = GExLoopBody(gm)
    /\ UNCHANGED <<run, runN, runR, ex, helpers>>

GExReturn ==
    /\ gm.drv.pc = "while"
    /\ ~GLoopTest(gm.drv)
    /\ gm' = GExReturnStmt(gm)
    /\ UNCHANGED <<run, runN, runR, ex, helpers>>

NextSame ==
    \/ ExIterate \/ ExNoRestart \/ ExReturn
    \/ GExIterate \/ GExReturn

SpecSame == InitSame /\ [][NextSame]_vars

(* ---------------- restart = None against restart = k_max --------------- *)

\* the two calls get the same A, b, x0, preconditioner, k_max and epsilon
InitPair ==
    /\ HelpersIdle
    /\ \E n \in Dims, k_max \in KMaxArgs, x0 \in X0Args,
          epsilon \in Epsilons, norm \in Vals :
          /\ runN = Setup(n, k_max, None, x0, epsilon, norm)
          /\ runR = Setup(n, k_max, k_max, x0, epsilon, norm)
    /\ run = NotCalled
    /\ gm = GNotCalled
    /\ ex = ExNotCalled

\* the next statement of one call; d holds the numeric results it computes
Advance(st, d) ==
    CASE st.pc = "while" /\ LoopTest(st)          -> LoopBody(st, d.bd, d.res)
      [] st.pc = "while" /\ ~LoopTest(st)         -> ReturnStmt(st)
      [] st.pc = "if_restart" /\ RestartTest(st)  -> RestartBlock(st, d.norm)
      [] st.pc = "if_restart" /\ ~RestartTest(st) ->
             [st EXCEPT !.pc = "while"]
      [] OTHER                                    -> st

\* the numeric results the next statement of a call can compute
Draws(st) ==
    CASE st.pc = "while" /\ LoopTest(st) ->
             [bd : BOOLEAN, res : 0 .. st.beta, norm : {0}]
      [] st.pc = "if_restart" /\ RestartTest(st) ->
             [bd : {FALSE}, res : {0}, norm : Vals]
      [] OTHER ->
             [bd : {FALSE}, res : {0}, norm : {0}]

\* what the numeric results of the next statement are computed from
NumericInputs(st) == <<st.pc, st.x0, st.xk, st.k, st.beta, st.V, st.H>>

Running(st) == st.pc \in {"while", "if_restart"}

\* both calls take their next statement; equal inputs give equal results
PairStep ==
    /\ Running(runN) \/ Running(runR)
    /\ \E dN \in Draws(runN), dR \in Draws(runR) :
          /\ (NumericInputs(runN) = NumericInputs(runR)
                 /\ Draws(runN) = Draws(runR)) => dN = dR
          /\ runN' = Advance(runN, dN)
          /\ runR' = Advance(runR, dR)
    /\ UNCHANGED <<run, gm, ex, helpers>>

NextPair == PairStep

SpecPair == InitPair /\ [][NextPair]_vars

(* ------------------ one solve, every statement executed ---------------- *)

\* one call of precon_GMRES_restarted
InitSolve ==
    /\ HelpersIdle
    /\ \E n \in Dims, k_max \in KMaxArgs, restart \in RestartArgs,
          x0 \in X0Args, epsilon \in Epsilons, norm \in Vals :
          run = Setup(n, k_max, restart, x0, epsilon, norm)
    /\ gm = GNotCalled
    /\ runN = NotCalled
    /\ runR = NotCalled
    /\ ex = ExNotCalled

NextSolve == Iterate \/ Restart \/ NoRestart \/ Return

\* the interpreter runs the next statement of the call whenever there is one
SpecLive == InitSolve /\ [][NextSolve]_vars /\ WF_vars(NextSolve)

(* --------------- calls with a parameter out of its range --------------- *)

\* iteration bounds that are not positive
InvalidKMax == {Some(0), Some(-1)}

\* tolerances that are not positive: 0 and -1/2
InvalidEpsilons == {<<0, 1>>, <<-1, 2>>}

\* a call of either solver with k_max <= 0 or epsilon <= 0 (or both)
InitInvalid ==
    /\ HelpersIdle
    /\ \E n \in Dims, k_max \in KMaxArgs \cup InvalidKMax,
          epsilon \in Epsilons \cup InvalidEpsilons, norm \in Vals :
          /\ k_max \in InvalidKMax \/ epsilon \in InvalidEpsilons
          /\ \/ /\ \E restart \in RestartArgs, x0 \in X0Args :
                      run = Setup(n, k_max, restart, x0, epsilon, norm)
                /\ gm = GNotCalled
             \/ /\ gm = GSetup(n, k_max, epsilon, norm)
                /\ run = NotCalled
    /\ runN = NotCalled
    /\ runR = NotCalled
    /\ ex = ExNotCalled

SpecInvalid == InitInvalid /\ [][Next]_vars

(* ---------------------- one call of back_substitution ------------------ *)

InitBs ==
    /\ \E c \in BsArgs : bs = BsCall(c.A, c.b)
    /\ full = ArnoldiNotCalled
    /\ one = OneNotCalled
    /\ run = NotCalled
    /\ gm = GNotCalled
    /\ runN = NotCalled
    /\ runR = NotCalled
    /\ ex = ExNotCalled

BsEnter ==
    /\ bs.pc = "entry"
    /\ bs' = BsChecks(bs)
    /\ UNCHANGED <<solvers, full, one>>

BsRow ==
    /\ bs.pc = "loop"
    /\ bs.i >= 1
    /\ bs' = BsLoopPass(bs)
    /\ UNCHANGED <<solvers, full, one>>

BsReturn ==
    /\ bs.pc = "loop"
    /\ bs.i < 1
    /\ bs' = [bs EXCEPT !.pc = "returned"]
    /\ UNCHANGED <<solvers, full, one>>

NextBs == BsEnter \/ BsRow \/ BsReturn

SpecBs == InitBs /\ [][NextBs]_vars

(* --------------------------- one call of arnoldi ----------------------- *)

\* one call arnoldi(A, b, r0, m) with m any integer from 0 to n + 1, or m
\* iterations of a caller of arnoldi_one_iter, or one call of it on a given V
InitArnoldi ==
    /\ \/ /\ \E A \in ArnMatrices :
                \E r0 \in ArnResiduals(Len(A)), m \in 0 .. Len(A) + 1 :
                   full = ArnoldiCall(A, r0, r0, m)
          /\ one = OneNotCalled
       \/ /\ \E A \in ArnMatrices :
                \E r0 \in ArnResiduals(Len(A)), m \in 1 .. Len(A) :
                   one = OneSetup(A, r0, m)
          /\ full = ArnoldiNotCalled
       \/ /\ \E c \in OneGivenArgs : one = OneGiven(c.A, c.cols)
          /\ full = ArnoldiNotCalled
    /\ run = NotCalled
    /\ gm = GNotCalled
    /\ runN = NotCalled
    /\ runR = NotCalled
    /\ ex = ExNotCalled
    /\ bs = BsNotCalled

ArnoldiEnter ==
    /\ full.pc = "entry"
    /\ full' = ArnoldiEntry(full)
    /\ UNCHANGED <<solvers, bs, one>>

ArnoldiStep ==
    /\ full.pc = "loop"
    /\ full.k <= full.m
    /\ full' = ArnoldiLoopPass(full)
    /\ UNCHANGED <<solvers, bs, one>>

ArnoldiReturn ==
    /\ full.pc = "loop"
    /\ full.k > full.m
    /\ full' = [full EXCEPT !.pc = "returned"]
    /\ UNCHANGED <<solvers, bs, one>>

OneExtend ==
    /\ one.pc = "extend"
    /\ one.k < one.m
    /\ one' = OneConcatenate(one)
    /\ UNCHANGED <<solvers, bs, full>>

OneCall ==
    /\ one.pc = "call"
    /\ one' = OneCallReturns(one)
    /\ UNCHANGED <<solvers, bs, full>>

OneStore ==
    /\ one.pc = "store"
    /\ one' = OneAssign(one)
    /\ UNCHANGED <<solvers, bs, full>>

OneFinish ==
    /\ one.pc = "extend"
    /\ one.k >= one.m
    /\ one' = [one EXCEPT !.pc = "done"]
    /\ UNCHANGED <<solvers, bs, full>>

NextArnoldi ==
    \/ ArnoldiEnter \/ ArnoldiStep \/ ArnoldiReturn
    \/ OneExtend \/ OneCall \/ OneStore \/ OneFinish

SpecArnoldi == InitArnoldi /\ [][NextArnoldi]_vars

(* ------------------------------- claims -------------------------------- *)

\* pk <= epsilon * ref, for the epsilon of the call st
Within(st, pk, ref) == ~Exceeds(pk, st.epsilon, ref)

Finished(st) == st.pc \in {"returned", "raised"}

RECURSIVE SumSeq(_)
SumSeq(s) == IF s = <<>> THEN 0 ELSE Head(s) + SumSeq(Tail(s))

\* C1: after every completed iteration (the restart test is next) whose
\* residual estimate pk is at most epsilon * beta, the solver stops: the
\* while test that follows fails and no further Arnoldi step runs, also
\* when that iteration is the one on which k reaches restart.
C1_ConvergedIterationStops ==
    [][ (run.pc = "if_restart" /\ Within(run, run.pk, run.beta))
            => (run'.pc = "while" /\ ~LoopTest(run')) ]_vars

\* C2: a solve whose initial residual norm beta is 0 runs no Arnoldi step
\* and ends by returning the x0 it was given, with 0 iterations; for
\* precon_GMRES_restarted and for GMRES.
C2_ZeroResidualReturnsX0 ==
    /\ (run.pc # "idle" /\ run.error_list[1] = 0) =>
          /\ run.calls = 0
          /\ Finished(run) =>
                /\ run.pc = "returned"
                /\ run.ret = <<run.x0in, run.error_list, 0>>
    /\ (gm.pc # "idle" /\ gm.beta = 0) =>
          /\ gm.calls = 0
          /\ Finished(gm) =>
                /\ gm.pc = "returned"
                /\ gm.ret[1] = gm.x0

\* C3: the effective iteration bound is n when k_max is None or above n
\* and is k_max itself when 1 <= k_max <= n; with k_max unspecified at
\* most n iterations run.  For precon_GMRES_restarted and for GMRES.
C3_EffectiveBound ==
    /\ run.pc # "idle" =>
          /\ run.k_maxArg = None => run.k_max = run.n
          /\ (run.k_maxArg # None /\ Val(run.k_maxArg) > run.n)
                => run.k_max = run.n
          /\ (run.k_maxArg # None /\ Val(run.k_maxArg) >= 1
                /\ Val(run.k_maxArg) <= run.n)
                => run.k_max = Val(run.k_maxArg)
          /\ run.k_maxArg = None
                => (run.total_k <= run.n /\ run.calls <= run.n)
    /\ gm.pc # "idle" =>
          /\ gm.k_maxArg = None => gm.k_max = gm.n
          /\ (gm.k_maxArg # None /\ Val(gm.k_maxArg) > gm.n)
                => gm.k_max = gm.n
          /\ (gm.k_maxArg # None /\ Val(gm.k_maxArg) >= 1
                /\ Val(gm.k_maxArg) <= gm.n)
                => gm.k_max = Val(gm.k_maxArg)
          /\ gm.k_maxArg = None => (gm.k <= gm.n /\ gm.calls <= gm.n)

\* a solve given k_max above n has returned after n iterations
C3_Witness ==
    /\ run.pc = "returned"
    /\ run.k_maxArg # None
    /\ Val(run.k_maxArg) > run.n
    /\ run.n >= 2
    /\ run.total_k = run.n

\* C4: 0 <= total_k <= k_max always; a solve that ends with total_k at
\* k_max returns the iterate of its last completed iteration, the
\* residual trace, and a total_k equal to the number of iterations run.
C4_TotalBounded ==
    run.pc # "idle" =>
       /\ 0 <= run.total_k
       /\ run.total_k <= run.k_max
       /\ (Finished(run) /\ run.total_k >= run.k_max) =>
             /\ run.pc = "returned"
             /\ run.ret = <<run.xk, run.error_list, run.total_k>>
             /\ run.total_k = run.calls
             /\ run.xk.from = run.x0in.from
             /\ SumSeq(run.xk.steps) = run.total_k

\* an unconverged solve with a restart behind it was cut off at k_max
C4_Witness ==
    /\ run.pc = "returned"
    /\ run.total_k = run.k_max
    /\ run.total_k >= 2
    /\ run.x0 # run.x0in
    /\ ~Within(run, run.error_list[Len(run.error_list)], run.beta)
    /\ ~Within(run, run.pk, run.p0)

\* C5: at the restart test, when restart is configured and k equals it,
\* x0 becomes xk, beta (and p0) the norm recomputed from the new x0, V the
\* single column r0/beta of the new x0, H empty, k zero, and total_k and
\* the trace stay; no other step changes x0.
C5_RestartResets ==
    [][ /\ (run.pc = "if_restart" /\ run.restart # None
              /\ run.k = Val(run.restart)) =>
              /\ run'.x0 = run.xk
              /\ run'.xk = run.xk
              /\ run'.p0 = run'.beta
              /\ run'.V = <<R0Col(run.xk, run'.beta)>>
              /\ run'.H = <<0>>
              /\ run'.k = 0
              /\ run'.total_k = run.total_k
              /\ run'.error_list = run.error_list
        /\ ~(run.pc = "if_restart" /\ run.restart # None
              /\ run.k = Val(run.restart)) =>
              run'.x0 = run.x0 ]_vars

\* a restart after two iterations has just been made
C5_Witness ==
    /\ run.pc = "while"
    /\ run.restart = Some(2)
    /\ run.total_k = 2
    /\ run.k = 0
    /\ run.x0 = run.xk
    /\ run.beta > 0

\* C6: with the same A, b, x0, preconditioner, k_max and epsilon, the call
\* with restart = k_max ends as the call with restart = None does and
\* returns the same (x, residual trace, total iteration count).
C6_RestartAtKMaxSame ==
    (Finished(runN) /\ Finished(runR)) =>
        /\ runN.pc = runR.pc
        /\ runN.ret = runR.ret

\* both calls returned and the one with restart = k_max did restart
C6_Witness ==
    /\ runN.pc = "returned"
    /\ runR.pc = "returned"
    /\ runR.total_k >= 2
    /\ runR.x0 # runR.x0in
    /\ runN.x0 = runN.x0in

\* C7: the residual trace holds exactly total_k + 1 entries in every
\* state: the seed beta and one estimate per completed iteration, also on
\* iterations where the Arnoldi step signals breakdown.
C7_OneEntryPerIteration ==
    run.pc # "idle" => Len(run.error_list) = run.total_k + 1

\* C8: an iteration whose Arnoldi step returns no new vector does not
\* raise; it appends 0 to the trace, leaves column k + 1 of V as it was
\* allocated, and forms xk from x0 and the k + 1 existing columns after
\* factoring H[:k + 2, :k + 1].
C8_BreakdownHandled ==
    [][ (run.pc = "while" /\ run'.calls = run.calls + 1
            /\ run'.v_new = "None") =>
            /\ run'.pc = "if_restart"
            /\ Len(run'.error_list) > Len(run.error_list)
            /\ run'.error_list[Len(run.error_list) + 1] = 0
            /\ SubSeq(run'.error_list, 1, Len(run.error_list))
                  = run.error_list
            /\ run'.V = Append(run.V, ZeroCol)
            /\ Len(run'.H) = run.k + 2
            /\ run'.H[run.k + 1] = run.k + 2
            /\ run'.xk = Iterate2(run.x0, run.k + 1) ]_vars

\* a breakdown on the second iteration of a cycle has been handled
C8_Witness ==
    /\ run.pc = "if_restart"
    /\ run.v_new = "None"
    /\ run.k = 2
    /\ run.V[3].kind = "zeros"
    /\ run.xk = Iterate2(run.x0, 2)

\* r0 = b - A @ x0 is a nonzero vector with A @ r0 = lambda * r0
IsEigenvector(A, r) ==
    /\ r # ZeroVec(Len(r))
    /\ \E lambda \in -2 .. 2 :
          MatVec(A, r) = [i \in 1 .. Len(r) |-> lambda * r[i]]

\* x = x0 + c * r for some scalar c
OnLine(x, x0, r) ==
    /\ \A i \in 1 .. Len(x) : x[i] # NotFinite
    /\ \A i, j \in 1 .. Len(x) :
          (x[i] - x0[i]) * r[j] = (x[j] - x0[j]) * r[i]

\* C9: when r0 = b - A x0 is an eigenvector of A (identity
\* preconditioner) the first Arnoldi step signals breakdown, no second
\* iteration runs, the residual reported for the iteration is 0, and the
\* returned x is x0 + c * r0 for a scalar c.
C9_EigenvectorBreakdown ==
    (ex.drv.pc # "idle" /\ IsEigenvector(ex.A, ex.r0in)) =>
        /\ ex.drv.calls >= 1 => ex.drv.v_new = "None"
        /\ ex.drv.calls <= 1
        /\ ex.drv.calls >= 1 =>
              \A i \in 2 .. Len(ex.drv.error_list) : ex.drv.error_list[i] = 0
        /\ Finished(ex.drv) =>
              /\ ex.drv.pc = "returned"
              /\ ex.drv.total_k = 1
              /\ OnLine(ex.ret, ex.x0in, ex.r0in)

\* C10: the tolerance is relative to the norm of the initial residual of
\* the caller's x0 in every cycle: after an iteration (here one that does
\* not restart) the loop's residual test fails exactly when pk is at most
\* epsilon times that initial norm.
C10_RelativeToInitialNorm ==
    [][ (run.pc = "if_restart" /\ ~RestartTest(run)) =>
            (Within(run, run.pk, run.error_list[1])
                <=> ~Exceeds(run'.pk, run'.epsilon, run'.p0)) ]_vars

\* the loop was left because pk <= epsilon * p0
Converged(st) == Finished(st) /\ Within(st, st.pk, st.p0)

\* the loop was left because total_k reached k_max
MaxIterReached(st) == Finished(st) /\ st.total_k >= st.k_max

\* C11: every solve terminates: whatever the restart period and the
\* residual values, the call eventually leaves the loop, as converged or at
\* the iteration bound; total_k never decreases and a restart leaves it as
\* it is.
C11_Terminates ==
    /\ <>(Converged(run) \/ MaxIterReached(run))
    /\ [][ /\ run'.total_k >= run.total_k
           /\ run.pc = "if_restart" => run'.total_k = run.total_k ]_vars

\* a solve that restarted after every iteration ended at the bound
C11_Witness ==
    /\ run.restart = Some(1)
    /\ run.total_k >= 2
    /\ run.x0 = run.xk
    /\ MaxIterReached(run)
    /\ ~Converged(run)

\* k_max <= 0 or epsilon <= 0 in the call st
InvalidParams(st) ==
    \/ st.k_maxArg # None /\ Val(st.k_maxArg) <= 0
    \/ st.epsilon[1] <= 0

\* C12: a call with k_max <= 0 or epsilon <= 0 is rejected with an error
\* before any computation: it runs no Arnoldi step and it is never given
\* back a result; for precon_GMRES_restarted and for GMRES.
C12_InvalidRejected ==
    /\ (run.pc # "idle" /\ InvalidParams(run)) =>
          /\ run.calls = 0
          /\ run.pc # "returned"
    /\ (gm.pc # "idle" /\ InvalidParams(gm)) =>
          /\ gm.calls = 0
          /\ gm.pc # "returned"

\* A.size(0), A.size(1) and b.size(0) of the call c
Shape(c) == <<Len(c.A), Len(c.A[1]), Len(c.b)>>

\* C13: back_substitution(R, y) fails, with no entry of the result
\* computed, whenever R is not square or its size differs from the length
\* of y, and goes on to its loop only when R is m x m and y has length m.
C13_DimensionCheck ==
    bs.pc \notin {"idle", "entry"} =>
        /\ bs.pc = "raised" <=>
              (Shape(bs)[1] # Shape(bs)[2] \/ Shape(bs)[1] # Shape(bs)[3])
        /\ bs.pc = "raised" => (bs.x = <<>> /\ bs.i = 0)
        /\ bs.pc \in {"loop", "returned"} =>
              /\ Shape(bs)[1] = Shape(bs)[3]
              /\ Shape(bs)[2] = Shape(bs)[3]
              /\ Len(bs.x) = Shape(bs)[3]

\* a call with 2 rows, 3 columns and a b of length 2 was refused
C13_Witness ==
    /\ bs.pc = "raised"
    /\ Shape(bs) = <<2, 3, 2>>

\* R is upper triangular with a nonzero diagonal
UpperNonsingular(R) ==
    \A i, j \in 1 .. Len(R) :
        /\ i > j => R[i][j] = 0
        /\ i = j => R[i][j] # 0

\* the sum over j > i of R[i, j] * z[j]
RowSum(R, z, i) == SumSeq([j \in 1 .. Len(z) - i |-> R[i][i + j] * z[i + j]])

\* C14: for every m x m upper-triangular R with nonzero diagonal and every
\* y of length m, back_substitution returns z with R z = y; the rows are
\* taken from the last to the first, each pass writes the one entry
\* z[i] = (y[i] - sum over j > i of R[i, j] * z[j]) / R[i, i] from the
\* entries j > i written before, and the entries not yet reached are 0.
C14_SolvesTriangular ==
    /\ [](( bs.pc = "returned" /\ UpperNonsingular(bs.A))
             => MatVec(bs.A, bs.x) = bs.b)
    /\ [](( bs.pc = "loop" /\ UpperNonsingular(bs.A))
             => \A j \in 1 .. Len(bs.x) :
                   /\ j <= bs.i => bs.x[j] = 0
                   /\ j > bs.i =>
                         bs.x[j] * bs.A[j][j]
                            = bs.b[j] - RowSum(bs.A, bs.x, j))
    /\ [][ (bs.pc = "loop" /\ bs'.pc = "loop" /\ UpperNonsingular(bs.A)) =>
             /\ bs'.i = bs.i - 1
             /\ \A j \in 1 .. Len(bs.x) : j # bs.i => bs'.x[j] = bs.x[j]
             /\ bs'.x[bs.i] * bs.A[bs.i][bs.i]
                   = bs.b[bs.i] - RowSum(bs.A, bs.x, bs.i) ]_vars

\* a 3 x 3 system with entries above the diagonal was solved
C14_Witness ==
    /\ bs.pc = "returned"
    /\ Len(bs.b) = 3
    /\ UpperNonsingular(bs.A)
    /\ bs.A[1][2] # 0
    /\ bs.A[2][3] # 0
    /\ bs.A[1][1] # bs.A[2][2]
    /\ \A i \in 1 .. 3 : bs.x[i] # 0

\* C15: a solve of an n x n system without restart and with the default
\* bound leaves the loop after at most n iterations through the
\* convergence test: the residual estimate pk it ends with is a number
\* and is at most epsilon * beta.
C15_ConvergesWithinN ==
    (Finished(ex.drv) /\ ex.drv.restart = None /\ ex.drv.k_maxArg = None) =>
        /\ ex.drv.total_k <= ex.drv.n
        /\ ex.drv.pk # NotFinite
        /\ Within(ex.drv, ex.drv.pk, ex.drv.beta)

\* the linear combination of the columns V[1 .. rows] with coefficients h
Combine(V, h, rows) ==
    [i \in 1 .. Len(V[1]) |-> SumSeq([r \in 1 .. rows |-> h[r] * V[r][i]])]

\* the passes of the loop of arnoldi that have been completed
PassesDone(f) == IF f.pc = "returned" THEN Min(f.k, f.m) ELSE f.k - 1

\* C17: the V and H of arnoldi(A, b, r0, m) satisfy
\* A V[:, :k] = V[:, :k+1] H[:k+1, :k] entry by entry for every k reached,
\* and the returned V and H satisfy A V[:, :-1] = V H.
C17_ArnoldiRelation ==
    full.pc \in {"loop", "returned"} =>
        /\ Len(full.V) = full.m + 1
        /\ Len(full.H) = full.m
        /\ \A k \in 1 .. PassesDone(full) : \A c \in 1 .. k :
              MatVec(full.A, full.V[c]) = Combine(full.V, full.H[c], k + 1)
        /\ full.pc = "returned" =>
              \A c \in 1 .. full.m :
                 MatVec(full.A, full.V[c])
                    = Combine(full.V, full.H[c], full.m + 1)

\* three passes on a 3 x 3 matrix, the third column of H with three
\* nonzero projections
C17_Witness ==
    /\ full.pc = "returned"
    /\ full.m = 3
    /\ full.k = 3
    /\ \A i \in 1 .. 3 : full.H[3][i] # 0
    /\ full.H[1][2] = 2
    /\ full.H[2][3] # 0

\* the columns V[1 .. cols] are mutually orthogonal and of unit norm
Orthonormal(V, cols) ==
    \A i, j \in 1 .. cols :
        SumSeq([r \in 1 .. Len(V[i]) |-> V[i][r] * V[j][r]])
            = IF i = j THEN 1 ELSE 0

\* none of the first c Arnoldi steps recorded in H broke down
NoBreakdown(H, c) == \A d \in 1 .. c : H[d][d + 1] > 0

\* C16: after every Arnoldi step that does not break down (nor any step
\* before it) the populated columns of V are mutually orthogonal and of
\* unit norm, for arnoldi and for the basis built by calls of
\* arnoldi_one_iter.
C16_Orthonormal ==
    /\ full.pc \in {"loop", "returned"} =>
          /\ Orthonormal(full.V, 1)
          /\ \A c \in 1 .. PassesDone(full) :
                NoBreakdown(full.H, c) => Orthonormal(full.V, c + 1)
    /\ (one.pc # "idle" /\ one.basis = "krylov") =>
          /\ Orthonormal(one.V, 1)
          /\ \A c \in 1 .. one.k :
                NoBreakdown(one.H, c) => Orthonormal(one.V, c + 1)

\* two calls of arnoldi_one_iter gave three orthonormal columns, the
\* second after a division by 2
C16_Witness ==
    /\ one.basis = "krylov"
    /\ one.pc = "extend"
    /\ one.k = 2
    /\ NoBreakdown(one.H, 2)
    /\ one.H[1][2] = 2
    /\ Orthonormal(one.V, 3)

\* h and v_new are what arnoldi_one_iter(A, V, k) is to return
IsArnoldiColumn(A, V, k, h, v_new) ==
    LET w0 == MatVec(A, V[k + 1])
        \* w0 less its first j projections
        Reduced(j) == [i \in 1 .. Len(w0) |->
                          w0[i] - SumSeq([c \in 1 .. j |-> h[c] * V[c][i]])]
    IN  /\ Len(h) = k + 2
        /\ \A j \in 0 .. k :
              h[j + 1] = SumSeq([i \in 1 .. Len(w0) |->
                                    Reduced(j)[i] * V[j + 1][i]])
        /\ h[k + 2] >= 0
        /\ h[k + 2] * h[k + 2]
              = SumSeq([i \in 1 .. Len(w0) |->
                           Reduced(k + 1)[i] * Reduced(k + 1)[i]])
        /\ v_new = NoVector <=> h[k + 2] <= 0
        /\ v_new # NoVector =>
              /\ Len(v_new) = Len(w0)
              /\ \A i \in 1 .. Len(w0) :
                    v_new[i] * h[k + 2] = Reduced(k + 1)[i]

\* C19: arnoldi_one_iter at step k returns h of length k + 2 whose entries
\* h[0..k] are the projections against V[:, 0..k] in increasing column
\* order, each of the w already reduced by the earlier ones, and whose
\* last entry is the norm of the remainder; v_new is None exactly when
\* h[k+1] <= tol and is else the remainder divided by h[k+1].  For the
\* numpy function where it has returned, for the torch one on the same
\* arguments.
C19_HessenbergColumn ==
    /\ one.pc = "store" =>
          IsArnoldiColumn(one.A, one.V, one.k, one.h, one.v_new)
    /\ one.pc = "call" =>
          IsArnoldiColumn(one.A, one.V, one.k,
                          ArnoldiOneIter(one.A, one.V, one.k).h,
                          ArnoldiOneIter(one.A, one.V, one.k).v_new)

\* a call with k = 1 on two columns that are not orthogonal has returned
\* two nonzero projections and a new vector
C19_Witness ==
    /\ one.pc = "store"
    /\ one.basis = "given"
    /\ one.k = 1
    /\ ~Orthonormal(one.V, 2)
    /\ one.h[1] # 0
    /\ one.h[2] # 0
    /\ one.v_new # NoVector

\* C20: a call of arnoldi_one_iter changes no column of V, no entry of H
\* and not A; the caller's assignments after the call write column k of H
\* and, unless breakdown was signalled, column k + 1 of V, and nothing
\* else.
C20_CallLeavesState ==
    [][ /\ one'.A = one.A
        /\ one.pc = "call" => (one'.V = one.V /\ one'.H = one.H)
        /\ one.pc = "store" =>
              /\ Len(one'.H) = Len(one.H)
              /\ Len(one'.V) = Len(one.V)
              /\ \A c \in 1 .. Len(one.H) :
                    c # one.k + 1 => one'.H[c] = one.H[c]
              /\ \A i \in 1 .. one.k + 2 : one'.H[one.k + 1][i] = one.h[i]
              /\ \A c \in 1 .. Len(one.V) :
                    c # one.k + 2 => one'.V[c] = one.V[c]
              /\ one.v_new = NoVector => one'.V = one.V
              /\ one.v_new # NoVector => one'.V[one.k + 2] = one.v_new
      ]_vars

\* the second call signalled breakdown and column 2 of V was left as zeros
C20_Witness ==
    /\ one.basis = "krylov"
    /\ one.pc = "extend"
    /\ one.k = 2
    /\ one.v_new = NoVector
    /\ one.H[1][2] > 0
    /\ one.V[3] = ZeroVec(Len(one.A))

\* the entries of the residual trace do not increase from one to the next
NonIncreasing(list) ==
    \A i \in 1 .. Len(list) - 1 :
        /\ list[i] # NotFinite
        /\ list[i + 1] # NotFinite
        /\ list[i + 1] <= list[i]

\* C18: within one restart cycle the residual trace never increases from
\* one entry to the next, the entries of a breakdown iteration included:
\* in a solve without restart, which is one cycle, error_list is
\* non-increasing at every point.
C18_TraceNonIncreasing ==
    (ex.drv.pc # "idle" /\ ex.drv.restart = None) =>
        NonIncreasing(ex.drv.error_list)

\* C21: in every state of a cycle, with k Arnoldi steps done in it: H
\* holds the k written columns and one column of zeros, each of n + 1
\* rows, so that the block of k + 1 rows and k columns handed to lg.qr
\* exists; step j (from 0) wrote rows 0 .. j+1 of column j and no more;
\* every entry below the first subdiagonal is 0.
C21_HessenbergShape ==
    ex.drv.pc # "idle" =>
        LET k == ex.drv.k
        IN  /\ Len(ex.H) = k + 1
            /\ Len(ex.drv.H) = k + 1
            /\ k + 1 <= ex.drv.n + 1
            /\ \A j \in 1 .. k + 1 : Len(ex.H[j]) = ex.drv.n + 1
            /\ \A j \in 1 .. k : ex.drv.H[j] = j + 1
            /\ ex.drv.H[k + 1] = 0
            /\ \A i \in 1 .. ex.drv.n + 1 : ex.H[k + 1][i] = 0
            /\ \A j \in 1 .. k : \A i \in j + 2 .. ex.drv.n + 1 :
                  ex.H[j][i] = 0

\* two steps were done on a matrix whose Hessenberg columns are full
C21_Witness ==
    /\ ex.drv.pc = "if_restart"
    /\ ex.drv.k = 2
    /\ ex.H[1][1] # 0
    /\ ex.H[1][2] # 0
    /\ ex.H[2][1] # 0
    /\ ex.H[2][2] # 0

\* prec(b - A @ x0) / beta for the x0 and the beta of the current cycle
FirstColumn(e) == VDiv(Residual(e.A, e.b, e.x0), e.drv.beta)

SameBasis(g, e, k) ==
    /\ \A j \in 1 .. k + 1 : g.V[j] = e.V[j]
    /\ \A j \in 1 .. k : \A i \in 1 .. k + 1 : g.H[j][i] = e.H[j][i]

\* C23: with the identity preconditioner and no restart, the k calls of
\* arnoldi_one_iter of precon_GMRES_restarted, stored as the driver stores
\* them, build the V and H of the call arnoldi(A, b, r0, k) of GMRES; and
\* the two solvers, when both have ended, have done the same number of
\* iterations and hold the same iterate.
C23_SameAsFullArnoldi ==
    /\ (gm.drv.k >= 1 /\ gm.drv.k = ex.drv.k) => SameBasis(gm, ex, gm.drv.k)
    /\ (Finished(gm.drv) /\ Finished(ex.drv)) =>
          /\ gm.drv.pc = ex.drv.pc
          /\ gm.drv.k = ex.drv.total_k
          /\ gm.ret = ex.ret

\* the columns of V are kept and one is added
GrowsByOne(V, W) ==
    /\ Len(W) = Len(V) + 1
    /\ \A j \in 1 .. Len(V) : W[j].x0 = V[j].x0

\* C24: with restart = r, 0 <= k < r at the start of every iteration and
\* V never has more than r + 1 columns; an iteration adds exactly one
\* column to V and to H, only the restart block drops columns (to one),
\* and every other step leaves them; with restart = None no step drops a
\* column.
C24_BasisBounded ==
    /\ [](run.restart # None =>
            /\ run.pc = "while" => (0 <= run.k /\ run.k < Val(run.restart))
            /\ Len(run.V) <= Val(run.restart) + 1)
    /\ [][ /\ (run.pc = "while" /\ LoopTest(run)) =>
                (GrowsByOne(run.V, run'.V) /\ Len(run'.H) = Len(run.H) + 1)
           /\ (run.pc = "if_restart" /\ RestartTest(run)) =>
                (Len(run'.V) = 1 /\ Len(run'.H) = 1)
           /\ Len(run'.V) < Len(run.V) =>
                (run.pc = "if_restart" /\ RestartTest(run))
           /\ run.restart = None => Len(run'.V) >= Len(run.V) ]_vars

\* a solve with restart = 2 has restarted from an iterate built on two
\* basis columns, and the basis of the second cycle has grown again
C24_Witness ==
    /\ run.pc = "if_restart"
    /\ run.restart = Some(2)
    /\ run.x0.steps = <<2>>
    /\ run.k = 1
    /\ Len(run.V) = 2

\* C25: after an Arnoldi step that signalled breakdown no further step
\* runs on the same basis: whenever an iteration is about to start, the
\* column V[:, k] that arnoldi_one_iter will read is not the zero-filled
\* column left by a breakdown.
C25_NoStepAfterBreakdown ==
    (ex.drv.pc = "while" /\ LoopTest(ex.drv)) =>
        /\ ex.drv.V[ex.drv.k + 1].kind # "zeros"
        /\ ~(ex.drv.k >= 1 /\ ex.drv.v_new = "None")

\* the counters and the shapes at a call of arnoldi_one_iter are within
\* what is allocated: V gets its column k + 1 and H has n + 1 rows
WithinAllocated(e) ==
    /\ 0 <= e.drv.k
    /\ e.drv.k <= e.drv.total_k
    /\ e.drv.total_k < e.drv.k_max
    /\ e.drv.k_max <= e.drv.n
    /\ Len(e.V) + 1 = e.drv.k + 2
    /\ Len(e.H) + 1 = e.drv.k + 2
    /\ e.drv.k + 2 <= e.drv.n + 1
    /\ \A j \in 1 .. Len(e.H) : Len(e.H[j]) = e.drv.n + 1

\* C26: at every call of arnoldi_one_iter, whatever iterations and
\* restarts came before, 0 <= k <= total_k < k_max <= n, V has k + 2
\* columns once the column of zeros is concatenated, k + 2 <= n + 1, and
\* the columns 0 .. k of V were assigned (none is a zero-filled column).
C26_CallWithinBounds ==
    (ex.drv.pc = "while" /\ LoopTest(ex.drv)) =>
        /\ WithinAllocated(ex)
        /\ \A j \in 1 .. ex.drv.k + 1 : ex.drv.V[j].kind \in {"r0_over_beta", "v_new"}

====
